---- MODULE Spec2Model ----
(***************************************************************************)
(* State-machine model of the spa control panel: SpaController and         *)
(* SpaControllerManager (spa_controller.py), the configuration loader      *)
(* (config.py), the SpaStatus record (models.py) and the polling loop,     *)
(* subscriber registry and request handlers of main.py.                    *)
(*                                                                         *)
(* The vendor protocol client (pybalboa.SpaClient) is an external          *)
(* collaborator.  Its handle is modelled by the attributes the code reads  *)
(* (dev) and by the awaited calls the code makes on it (calls): an awaited *)
(* call is issued in one step and completes, with success or with an       *)
(* exception, in a later step, so other coroutines interleave exactly at   *)
(* the awaits of the source.                                               *)
(*                                                                         *)
(* An Optional value of the source is a sequence of length at most one:    *)
(* None is <<>> and a present value v is <<v>>.                            *)
(***************************************************************************)
EXTENDS Integers, Sequences, FiniteSets, TLC

VARIABLES
    phase,               \* lifespan: "startup", "serving", "shutdown", "stopped"
    configs,             \* SpaControllerManager.configs
    controllers,         \* SpaControllerManager.controllers: its keys, in insertion order
    ctl,                 \* the SpaController object built for each spa_id
    dev,                 \* attributes of each controller's SpaClient handle
    calls,               \* awaited calls in progress on device handles
    attempt,             \* how the connection attempt to each spa ended
    initPc,              \* position of SpaControllerManager.initialize
    shutPc,              \* position of SpaControllerManager.disconnect_all
    monPc,               \* position of the monitor_spas task
    sleepFor,            \* seconds of the asyncio.sleep monitor_spas last started
    bcast,               \* local state of ConnectionManager.broadcast, with its history
    active_connections,  \* ConnectionManager.active_connections
    sockets,             \* state of each WebSocket endpoint coroutine
    dropped,             \* history: sockets a returned fan-out removed after a failed send
    ev                   \* the last step taken: operation, arguments, outcome, result

vars == <<phase, configs, controllers, ctl, dev, calls, attempt, initPc, shutPc, monPc,
          sleepFor, bcast, active_connections, sockets, dropped, ev>>

-----------------------------------------------------------------------------
(* Bounds of the model *)

MaxPumps == 2          \* pump slots a handle reports
MaxPumpState == 3      \* pump state codes 0..MaxPumpState (3 is outside Off/Low/High)
MaxLightState == 3     \* light state codes 0..MaxLightState
MaxCalls == 1          \* awaited device calls in progress at once
MaxRacing == 2         \* the same, where requests for one spa run concurrently
MaxSockets == 2        \* WebSocket clients that ever connect

-----------------------------------------------------------------------------
(* Optional values and Python helpers *)

None == <<>>
Some(v) == <<v>>
IsNone(o) == o = <<>>
Val(o) == o[1]

\* getattr(obj, name, default) on an Optional attribute
GetAttr(o, default) == IF IsNone(o) THEN default ELSE Val(o)

Min(a, b) == IF a < b THEN a ELSE b

Digit == <<"0", "1", "2", "3", "4", "5", "6", "7", "8", "9">>

RECURSIVE IntToStr(_)
\* str(n) for a non-negative int
IntToStr(n) ==
    IF n < 10 THEN Digit[n + 1]
    ELSE IntToStr(n \div 10) \o Digit[(n % 10) + 1]

\* str(b) for a bool
BoolToStr(b) == IF b THEN "True" ELSE "False"

Range(s) == {s[i] : i \in DOMAIN s}

-----------------------------------------------------------------------------
(* models.py: SpaStatus.  last_update, a wall-clock timestamp, is left out. *)

\* SpaStatus(spa_id=..., connected=...) with every other field at its default
SpaStatus(spa_id, connected) ==
    [spa_id           |-> spa_id,
     connected        |-> connected,
     current_temp     |-> None,
     target_temp      |-> None,
     heat_mode        |-> None,
     pumps            |-> <<>>,
     lights           |-> FALSE,
     light_mode       |-> None,
     filter_mode      |-> None,
     circulation_pump |-> FALSE,
     mac_address      |-> None]

-----------------------------------------------------------------------------
(* spa_controller.py: SpaController.get_status *)

\* ParsePumps that gives every position a key, an empty slot as Off
ParsePumps_dense(d) ==
    [i \in 0..(Len(d.pumps) - 1) |->
        IF IsNone(d.pumps[i + 1]) THEN 0 ELSE Val(d.pumps[i + 1])]

\* lines 68-74: the pumps dict, keyed by enumerate() position (from 0)
ParsePumps(d) ==
    [i \in {j \in 0..(Len(d.pumps) - 1) : ~IsNone(d.pumps[j + 1])} |->
        Val(d.pumps[i + 1])]

\* lines 81-97: the loop visits the lights until the first truthy one
\* (the break is inside "if light"); 0 when there is none
FirstLight(lights) ==
    IF \E i \in DOMAIN lights : ~IsNone(lights[i])
    THEN CHOOSE i \in DOMAIN lights :
            /\ ~IsNone(lights[i])
            /\ \A j \in 1..(i - 1) : IsNone(lights[j])
    ELSE 0

\* lines 86-95: the mode label of a light that is on
LightModeOf(light) ==
    IF light.options # <<>>
    THEN IF light.state < Len(light.options)
         THEN light.options[light.state + 1]
         ELSE "MODE_" \o IntToStr(light.state)
    ELSE "STATE_" \o IntToStr(light.state)

\* ParseLights that labels the light's state without the test of line 86
ParseLights_unguarded(d) ==
    LET k == FirstLight(d.lights) IN
    IF k = 0 THEN <<FALSE, "OFF">>
    ELSE LET light == Val(d.lights[k]) IN <<light.state > 0, LightModeOf(light)>>

\* lines 77-97: <<lights_on, light_mode>>
ParseLights(d) ==
    LET k == FirstLight(d.lights) IN
    IF k = 0 THEN <<FALSE, "OFF">>
    ELSE LET light == Val(d.lights[k]) IN
         IF light.state > 0 THEN <<TRUE, LightModeOf(light)>>
         ELSE <<FALSE, "OFF">>

\* lines 105-107
ParseCirculation(d) ==
    IF IsNone(d.circulation_pump) THEN FALSE ELSE Val(d.circulation_pump) > 0

\* line 114: str(heat_mode) if heat_mode else None (an enum of value 0 is falsy)
ParseHeatMode(d) ==
    IF ~IsNone(d.heat_mode) /\ Val(d.heat_mode).value # 0
    THEN Some(Val(d.heat_mode).name)
    ELSE None

\* line 118
FilterMode(d) ==
    "Cycle1: " \o BoolToStr(GetAttr(d.filter_cycle_1_running, FALSE))
        \o ", Cycle2: " \o BoolToStr(GetAttr(d.filter_cycle_2_running, FALSE))

\* NotReadyStatus that reads the temperatures all the same
NotReadyStatus_temps(d, spa_id) ==
    [SpaStatus(spa_id, TRUE) EXCEPT !.mac_address = d.mac_address,
                                    !.current_temp = d.temperature,
                                    !.target_temp = d.target_temperature]

\* lines 59-66: connected, configuration not loaded
NotReadyStatus(d, spa_id) ==
    [SpaStatus(spa_id, TRUE) EXCEPT !.mac_address = d.mac_address]

\* lines 109-122: the status of a fully ready handle
ReadyStatus(d, spa_id) ==
    [spa_id           |-> spa_id,
     connected        |-> TRUE,
     current_temp     |-> d.temperature,
     target_temp      |-> d.target_temperature,
     heat_mode        |-> ParseHeatMode(d),
     pumps            |-> ParsePumps(d),
     lights           |-> ParseLights(d)[1],
     light_mode       |-> Some(ParseLights(d)[2]),
     filter_mode      |-> Some(FilterMode(d)),
     circulation_pump |-> ParseCirculation(d),
     mac_address      |-> d.mac_address]

\* The places of the try block (lines 55-125) where probing the handle may
\* raise; "none" is a fetch in which nothing raises.
Faults == {"none", "configuration_loaded", "pumps", "lights", "temperature",
           "circulation_pump"}

\* A result of get_status: the exception it lets through (raised), the status
\* it returns, and the new value of self.last_status
Returned(status, last) == [raised |-> FALSE, status |-> status, last_status |-> last]
Raised(c, spa_id) ==
    [raised |-> TRUE, status |-> SpaStatus(spa_id, FALSE), last_status |-> c.last_status]

\* GetStatusBody that caches the status of a handle that is not ready as well
GetStatusBody_caches(c, d, spa_id, fault) ==
    IF fault = "configuration_loaded" THEN Raised(c, spa_id)
    ELSE IF ~GetAttr(d.configuration_loaded, FALSE)
    THEN Returned(NotReadyStatus(d, spa_id), Some(NotReadyStatus(d, spa_id)))
    ELSE IF fault # "none" THEN Raised(c, spa_id)
    ELSE Returned(ReadyStatus(d, spa_id), Some(ReadyStatus(d, spa_id)))

\* lines 56-125: the body of the try block
GetStatusBody(c, d, spa_id, fault) ==
    IF fault = "configuration_loaded" THEN Raised(c, spa_id)
    ELSE IF ~GetAttr(d.configuration_loaded, FALSE)
    THEN Returned(NotReadyStatus(d, spa_id), c.last_status)
    ELSE IF fault # "none" THEN Raised(c, spa_id)
    ELSE Returned(ReadyStatus(d, spa_id), Some(ReadyStatus(d, spa_id)))

\* get_status without the test of lines 47-53
SpaController_get_status_noguard(c, d, spa_id, fault) ==
    LET r == GetStatusBody(c, d, spa_id, fault) IN
    IF r.raised THEN Returned(SpaStatus(spa_id, FALSE), c.last_status) ELSE r

\* get_status whose try block does not cover the probing
SpaController_get_status_propagates(c, d, spa_id, fault) ==
    IF ~c.connected \/ ~c.client
    THEN Returned(SpaStatus(spa_id, FALSE), c.last_status)
    ELSE GetStatusBody(c, d, spa_id, fault)

\* lines 45-133
SpaController_get_status(c, d, spa_id, fault) ==
    IF ~c.connected \/ ~c.client
    THEN Returned(SpaStatus(spa_id, FALSE), c.last_status)
    ELSE LET r == GetStatusBody(c, d, spa_id, fault) IN
         IF r.raised                                   \* except Exception
         THEN Returned(SpaStatus(spa_id, FALSE), c.last_status)
         ELSE r

-----------------------------------------------------------------------------
(* spa_controller.py: the command methods of SpaController.  Each returns   *)
(* what the method does up to its first await: the exception it raises, or  *)
(* the device call it awaits, or nothing (it returns at once).              *)

NotConnected == [outcome |-> "NotConnected", call |-> None]
Failed == [outcome |-> "DeviceError", call |-> None]
NoEffect == [outcome |-> "success", call |-> None]
Await(call) == [outcome |-> "pending", call |-> Some(call)]

\* An awaited call on a device handle: the command that made it, the device
\* object of the handle it is made on, and the value passed
DeviceCall(op, spa_id, target, slot, value) ==
    [op |-> op, spa |-> spa_id, target |-> target, slot |-> slot, value |-> value]

\* NextPumpState without the wrap from High to Off
NextPumpState_nowrap(current_state) ==
    IF current_state \in {0, 1, 2} THEN current_state + 1 ELSE 0

\* lines 161-168
NextPumpState(current_state) ==
    IF current_state = 0 THEN 1
    ELSE IF current_state = 1 THEN 2
    ELSE IF current_state = 2 THEN 0
    ELSE 0

\* NextLightState without the modulus
NextLightState_nomod(light) ==
    IF light.options # <<>> THEN light.state + 1
    ELSE IF light.state = 0 THEN 1 ELSE 0

\* lines 193-199
NextLightState(light) ==
    IF light.options # <<>>
    THEN (light.state + 1) % Len(light.options)
    ELSE IF light.state = 0 THEN 1 ELSE 0

\* Python list indexing: the position (from 1) that list[i] reads, 0 when it
\* raises IndexError
PyIndex(list, i) ==
    IF i >= 0 /\ i < Len(list) THEN i + 1
    ELSE IF i < 0 /\ -i <= Len(list) THEN Len(list) + i + 1
    ELSE 0

\* lines 135-145
SpaController_set_temperature(c, d, spa_id, temperature) ==
    IF ~c.connected \/ ~c.client THEN NotConnected
    ELSE Await(DeviceCall("set_temperature", spa_id, "temperature", 0, temperature))

\* lines 147-178
SpaController_cycle_pump(c, d, spa_id, pump_id) ==
    IF ~c.connected \/ ~c.client THEN NotConnected
    ELSE IF d.pumps # <<>> /\ Len(d.pumps) > pump_id
    THEN LET k == PyIndex(d.pumps, pump_id) IN
         IF k = 0 THEN Failed                          \* IndexError, re-raised
         ELSE IF IsNone(d.pumps[k]) THEN NoEffect
         ELSE Await(DeviceCall("cycle_pump", spa_id, "pump", k,
                               NextPumpState(Val(d.pumps[k]))))
    ELSE NoEffect

\* lines 180-209
SpaController_cycle_light(c, d, spa_id) ==
    IF ~c.connected \/ ~c.client THEN NotConnected
    ELSE IF d.lights # <<>> /\ Len(d.lights) > 0
    THEN IF IsNone(d.lights[1]) THEN NoEffect
         ELSE Await(DeviceCall("cycle_light", spa_id, "light", 1,
                               NextLightState(Val(d.lights[1]))))
    ELSE NoEffect

\* lines 211-230
SpaController_set_light(c, d, spa_id, state) ==
    IF ~c.connected \/ ~c.client THEN NotConnected
    ELSE IF d.lights # <<>> /\ Len(d.lights) > 0
    THEN IF IsNone(d.lights[1]) THEN NoEffect
         ELSE Await(DeviceCall("set_light", spa_id, "light", 1,
                               IF state THEN 1 ELSE 0))
    ELSE NoEffect

\* The effect on the handle of an awaited call that succeeds: the device
\* takes the state, or the target temperature, that was requested
ApplyCall(d, call) ==
    IF call.target = "temperature"
    THEN [d EXCEPT !.target_temperature = Some(call.value)]
    ELSE IF call.target = "pump"
    THEN IF call.slot \in DOMAIN d.pumps /\ ~IsNone(d.pumps[call.slot])
         THEN [d EXCEPT !.pumps[call.slot] = Some(call.value)]
         ELSE d
    ELSE IF call.slot \in DOMAIN d.lights /\ ~IsNone(d.lights[call.slot])
         THEN [d EXCEPT !.lights[call.slot] =
                   Some([Val(d.lights[call.slot]) EXCEPT !.state = call.value])]
         ELSE d

-----------------------------------------------------------------------------
(* spa_controller.py: SpaControllerManager *)

\* config.py lines 15 and 24 (35 and 41): the spa_ids a configuration names
SpaIds == {1, 2}

Keys(mapping) == Range(mapping)

NotFound == [outcome |-> "NotFound", call |-> None]

\* lines 281-285
Manager_set_temperature(spa_id, temperature) ==
    IF spa_id \notin Keys(controllers) THEN NotFound
    ELSE SpaController_set_temperature(ctl[spa_id], dev[spa_id], spa_id, temperature)

\* Manager_cycle_pump without the membership test
Manager_cycle_pump_unchecked(spa_id, pump_id) ==
    SpaController_cycle_pump(ctl[spa_id], dev[spa_id], spa_id, pump_id)

\* lines 287-291
Manager_cycle_pump(spa_id, pump_id) ==
    IF spa_id \notin Keys(controllers) THEN NotFound
    ELSE SpaController_cycle_pump(ctl[spa_id], dev[spa_id], spa_id, pump_id)

\* lines 293-297
Manager_cycle_light(spa_id) ==
    IF spa_id \notin Keys(controllers) THEN NotFound
    ELSE SpaController_cycle_light(ctl[spa_id], dev[spa_id], spa_id)

\* lines 299-303
Manager_set_light(spa_id, state) ==
    IF spa_id \notin Keys(controllers) THEN NotFound
    ELSE SpaController_set_light(ctl[spa_id], dev[spa_id], spa_id, state)

\* Manager_get_all_status that leaves out the spas whose fetch degraded
Manager_get_all_status_skips(faults) ==
    [k \in {j \in Keys(controllers) :
                ctl[j].connected /\ ctl[j].client /\ faults[j] = "none"} |->
        SpaController_get_status(ctl[k], dev[k], k, faults[k])]

\* lines 264-273: the statuses by spa_id, and the controllers after the fetch;
\* faults[spa_id] is where the probing of that spa's handle raises
Manager_get_all_status(faults) ==
    [k \in Keys(controllers) |->
        SpaController_get_status(ctl[k], dev[k], k, faults[k])]

\* lines 275-279
Manager_get_spa_status(spa_id, fault) ==
    IF spa_id \notin Keys(controllers)
    THEN [outcome |-> "NotFound", got |-> <<>>]
    ELSE [outcome |-> "success",
          got |-> [k \in {spa_id} |->
                     SpaController_get_status(ctl[k], dev[k], k, fault)]]

-----------------------------------------------------------------------------
(* The devices a handle can stand for *)

\* the target temperature a request names
Temperatures == {102}

LightOptions == <<"OFF", "LOW", "HIGH">>

\* A handle before its attributes are populated, and after it is dropped
NoDevice ==
    [configuration_loaded   |-> None,
     pumps                  |-> <<>>,
     lights                 |-> <<>>,
     circulation_pump       |-> None,
     temperature            |-> None,
     target_temperature     |-> None,
     heat_mode              |-> None,
     filter_cycle_1_running |-> None,
     filter_cycle_2_running |-> None,
     mac_address            |-> None]

\* A ready spa with one pump and one light without options, all off
BaseDevice ==
    [configuration_loaded   |-> Some(TRUE),
     pumps                  |-> <<Some(0)>>,
     lights                 |-> <<Some([state |-> 0, options |-> <<>>])>>,
     circulation_pump       |-> Some(0),
     temperature            |-> Some(98),
     target_temperature     |-> Some(100),
     heat_mode              |-> Some([value |-> 1, name |-> "REST"]),
     filter_cycle_1_running |-> Some(FALSE),
     filter_cycle_2_running |-> Some(TRUE),
     mac_address            |-> Some("00:15:27:00:00:01")]

PumpSlots == {None} \cup {Some(st) : st \in 0..MaxPumpState}

PumpLists ==
    UNION {[1..n -> PumpSlots] : n \in 0..MaxPumps}

LightSlots ==
    {None} \cup {Some([state |-> st, options |-> o]) :
                    st \in 0..MaxLightState, o \in {<<>>, LightOptions}}

\* up to two lights; a second light is on, so that it shows when it is read
LightLists ==
    {<<>>} \cup {<<a>> : a \in LightSlots}
           \cup {<<a, Some([state |-> 1, options |-> o])>> :
                    a \in LightSlots, o \in {<<>>, LightOptions}}

\* The devices of the controller-level specification: BaseDevice with one
\* group of attributes varied at a time
Devices ==
    {[BaseDevice EXCEPT !.pumps = p] : p \in PumpLists}
    \cup {[BaseDevice EXCEPT !.lights = l] : l \in LightLists}
    \cup {[BaseDevice EXCEPT !.configuration_loaded = r, !.mac_address = m] :
            r \in {None, Some(FALSE), Some(TRUE)},
            m \in {None, BaseDevice.mac_address}}
    \cup {[BaseDevice EXCEPT !.circulation_pump = c, !.pumps = <<>>] :
            c \in {None, Some(0), Some(1)}}
    \cup {[BaseDevice EXCEPT !.temperature = None, !.target_temperature = None,
                             !.heat_mode = h, !.filter_cycle_1_running = None] :
            h \in {None, Some([value |-> 0, name |-> "READY"])}}

\* The devices of the system specification
SystemDevices == {BaseDevice}

\* What str() gives for the members of an enumeration of light states
EnumOptions == <<"OffOnState.OFF", "OffOnState.ON">>

\* The devices of the mapper specification: Devices, and a light whose
\* options are enumeration members
MapperDevices ==
    Devices \cup {[BaseDevice EXCEPT !.lights =
                      <<Some([state |-> st, options |-> EnumOptions])>>] :
                    st \in 0..MaxLightState}

\* The devices of the light specification: BaseDevice with each list of lights
LightDevices == {[BaseDevice EXCEPT !.lights = l] : l \in LightLists}

\* The devices of the cycle specification: pump 0 and light 0 off, the light
\* with and without options
CycleDevices ==
    {[BaseDevice EXCEPT !.lights = <<Some([state |-> 0, options |-> o])>>] :
        o \in {<<>>, LightOptions}}

-----------------------------------------------------------------------------
(* The record of the last step *)

Ev(op, id, outcome) ==
    [op |-> op, id |-> id, arg |-> None, req |-> None, outcome |-> outcome,
     faults |-> <<>>, result |-> <<>>]

\* SpaController.__init__, lines 11-15
NewController == [connected |-> FALSE, client |-> FALSE, last_status |-> None]

RemoveAt(seq, i) == SubSeq(seq, 1, i - 1) \o SubSeq(seq, i + 1, Len(seq))

Serving == phase \in {"serving", "shutdown"}

-----------------------------------------------------------------------------
(* main.py: the command handlers, lines 228-252 *)

\* The pump ids requested of a handle: every position it has, in both of
\* Python's index directions, and one position beyond each end
PumpIds(d) == (-(Len(d.pumps) + 1))..Len(d.pumps)

\* A handler up to the first await of the command it dispatches, with at
\* most limit device calls in progress
Dispatch(limit, op, spa_id, arg, r) ==
    /\ Serving
    /\ r.outcome = "pending" => Len(calls) < limit
    /\ calls' = IF r.outcome = "pending" THEN Append(calls, Val(r.call)) ELSE calls
    /\ ev' = [Ev(op, spa_id, r.outcome) EXCEPT
                !.arg = Some(arg),
                !.req = IF r.outcome = "pending" THEN Some(Val(r.call).value) ELSE None]
    /\ UNCHANGED <<phase, configs, controllers, ctl, dev, attempt, initPc, shutPc, monPc,
                   sleepFor, bcast, active_connections, sockets, dropped>>

Command(op, spa_id, arg, r) == Dispatch(MaxCalls, op, spa_id, arg, r)

api_set_temperature ==
    \E spa_id \in SpaIds, temperature \in Temperatures :
        Command("set_temperature", spa_id, temperature,
                Manager_set_temperature(spa_id, temperature))

api_cycle_pump ==
    \E spa_id \in SpaIds : \E pump_id \in PumpIds(dev[spa_id]) :
        Command("cycle_pump", spa_id, pump_id, Manager_cycle_pump(spa_id, pump_id))

api_cycle_light ==
    \E spa_id \in SpaIds :
        Command("cycle_light", spa_id, 0, Manager_cycle_light(spa_id))

api_toggle_light ==
    \E spa_id \in SpaIds, state \in BOOLEAN :
        Command("set_light", spa_id, IF state THEN 1 ELSE 0,
                Manager_set_light(spa_id, state))

\* lines 235-239, while another request may be suspended at its device call
concurrent_cycle_pump ==
    \E spa_id \in SpaIds : \E pump_id \in PumpIds(dev[spa_id]) :
        Dispatch(MaxRacing, "cycle_pump", spa_id, pump_id,
                 Manager_cycle_pump(spa_id, pump_id))

\* lines 241-245, while another request may be suspended at its device call
concurrent_cycle_light ==
    \E spa_id \in SpaIds :
        Dispatch(MaxRacing, "cycle_light", spa_id, 0, Manager_cycle_light(spa_id))

\* CallReturns without the raise of the except clause: the command returns
\* and its handler reports success
CallReturns_swallows ==
    \E i \in DOMAIN calls, ok \in BOOLEAN :
        LET call == calls[i] IN
        /\ Serving
        /\ calls' = RemoveAt(calls, i)
        /\ dev' = IF ok /\ ctl[call.spa].client
                  THEN [dev EXCEPT ![call.spa] = ApplyCall(dev[call.spa], call)]
                  ELSE dev
        /\ ev' = [Ev(call.op, call.spa, "success") EXCEPT !.req = Some(call.value)]
        /\ UNCHANGED <<phase, configs, controllers, ctl, attempt, initPc, shutPc, monPc,
                       sleepFor, bcast, active_connections, sockets, dropped>>

\* An awaited device call completes: it succeeds and the device takes the
\* requested value, or it raises and the command re-raises to its handler
CallReturns ==
    \E i \in DOMAIN calls, ok \in BOOLEAN :
        LET call == calls[i] IN
        /\ Serving
        /\ calls' = RemoveAt(calls, i)
        /\ dev' = IF ok /\ ctl[call.spa].client
                  THEN [dev EXCEPT ![call.spa] = ApplyCall(dev[call.spa], call)]
                  ELSE dev
        /\ ev' = [Ev(call.op, call.spa, IF ok THEN "success" ELSE "DeviceError")
                    EXCEPT !.req = Some(call.value)]
        /\ UNCHANGED <<phase, configs, controllers, ctl, attempt, initPc, shutPc, monPc,
                       sleepFor, bcast, active_connections, sockets, dropped>>

-----------------------------------------------------------------------------
(* main.py: the status handlers, lines 215-226 *)

\* The controllers after a fetch: get_status may set self.last_status
Cached(got) ==
    [k \in SpaIds |->
        IF k \in DOMAIN got THEN [ctl[k] EXCEPT !.last_status = got[k].last_status]
        ELSE ctl[k]]

StatusOutcome(got) ==
    IF \E k \in DOMAIN got : got[k].raised THEN "raised" ELSE "success"

api_get_status ==
    \E faults \in [Keys(controllers) -> Faults] :
        LET got == Manager_get_all_status(faults) IN
        /\ Serving
        /\ ctl' = Cached(got)
        /\ ev' = [Ev("get_status", 0, StatusOutcome(got)) EXCEPT
                    !.faults = faults,
                    !.result = [k \in DOMAIN got |-> got[k].status]]
        /\ UNCHANGED <<phase, configs, controllers, dev, calls, attempt, initPc, shutPc,
                       monPc, sleepFor, bcast, active_connections, sockets, dropped>>

api_get_spa_status ==
    \E spa_id \in SpaIds, fault \in Faults :
        LET r == Manager_get_spa_status(spa_id, fault) IN
        /\ Serving
        /\ ctl' = Cached(r.got)
        /\ ev' = [Ev("get_spa_status", spa_id,
                     IF r.outcome = "success" THEN StatusOutcome(r.got) ELSE r.outcome)
                    EXCEPT !.faults = [k \in DOMAIN r.got |-> fault],
                           !.result = [k \in DOMAIN r.got |-> r.got[k].status]]
        /\ UNCHANGED <<phase, configs, controllers, dev, calls, attempt, initPc, shutPc,
                       monPc, sleepFor, bcast, active_connections, sockets, dropped>>

-----------------------------------------------------------------------------
(* config.py: load_spa_configs, lines 5-48.  Of a SpaConfig the model keeps  *)
(* spa_id and enabled; name, ip_address and port decide nothing here.        *)

SpaConfig(spa_id, enabled) == [spa_id |-> spa_id, enabled |-> enabled]

\* spa1_ip, spa2_ip: whether SPA1_IP, SPA2_IP are set in the environment
load_spa_configs(spa1_ip, spa2_ip) ==
    LET fromEnv == (IF spa1_ip THEN <<SpaConfig(1, TRUE)>> ELSE <<>>)
                   \o (IF spa2_ip THEN <<SpaConfig(2, TRUE)>> ELSE <<>>)
    IN IF fromEnv = <<>> THEN <<SpaConfig(1, TRUE), SpaConfig(2, TRUE)>> ELSE fromEnv

\* The configuration lists of the model: those of load_spa_configs, and the
\* same lists with records disabled.  The loader of this repository enables
\* every record it builds; disabled records are included because
\* SpaConfig.enabled is a field that initialize (line 246) branches on.
ConfigLists ==
    {[i \in DOMAIN l |-> SpaConfig(l[i].spa_id, en[l[i].spa_id])] :
        l \in {load_spa_configs(a, b) : a, b \in BOOLEAN},
        en \in [SpaIds -> BOOLEAN]}

-----------------------------------------------------------------------------
(* spa_controller.py: SpaControllerManager.initialize, lines 237-256, with   *)
(* SpaController.connect, lines 17-32, which it awaits                       *)

InitFrame == UNCHANGED <<phase, configs, calls, shutPc, monPc, sleepFor, bcast,
                         active_connections, sockets, dropped>>

\* self.controllers[spa_id] = controller
Put(mapping, spa_id) ==
    IF spa_id \in Keys(mapping) THEN mapping ELSE Append(mapping, spa_id)

Advance(pc) == [i |-> pc.i + 1, at |-> "loop"]

\* lines 246-250 and 20-21: an enabled config; the controller and its client
\* are built and client.connect() is awaited
InitConnect ==
    /\ phase = "startup" /\ initPc.at = "loop" /\ initPc.i <= Len(configs)
    /\ configs[initPc.i].enabled
    /\ LET spa_id == configs[initPc.i].spa_id IN
        /\ ctl' = [ctl EXCEPT ![spa_id] = [NewController EXCEPT !.client = TRUE]]
        /\ initPc' = [initPc EXCEPT !.at = "connect"]
        /\ ev' = Ev("initialize", spa_id, "connecting")
    /\ UNCHANGED <<controllers, dev, attempt>>
    /\ InitFrame

\* InitSkip that registers a controller for the disabled config
InitSkip_registers ==
    /\ phase = "startup" /\ initPc.at = "loop" /\ initPc.i <= Len(configs)
    /\ ~configs[initPc.i].enabled
    /\ controllers' = Put(controllers, configs[initPc.i].spa_id)
    /\ initPc' = Advance(initPc)
    /\ ev' = Ev("initialize", configs[initPc.i].spa_id, "skipped")
    /\ UNCHANGED <<ctl, dev, attempt>>
    /\ InitFrame

\* lines 255-256: a disabled config is skipped
InitSkip ==
    /\ phase = "startup" /\ initPc.at = "loop" /\ initPc.i <= Len(configs)
    /\ ~configs[initPc.i].enabled
    /\ initPc' = Advance(initPc)
    /\ ev' = Ev("initialize", configs[initPc.i].spa_id, "skipped")
    /\ UNCHANGED <<controllers, ctl, dev, attempt>>
    /\ InitFrame

\* ConnectFails that registers the controller as disconnected
ConnectFails_registers(spa_id) ==
    /\ ctl' = [ctl EXCEPT ![spa_id].connected = FALSE]
    /\ attempt' = [attempt EXCEPT ![spa_id] = "failed"]
    /\ controllers' = Put(controllers, spa_id)
    /\ initPc' = Advance(initPc)
    /\ ev' = Ev("initialize", spa_id, "ConnectionFailure")
    /\ UNCHANGED dev

\* lines 29-32 and 253-254: connect raises; initialize logs and goes on
ConnectFails(spa_id) ==
    /\ ctl' = [ctl EXCEPT ![spa_id].connected = FALSE]
    /\ attempt' = [attempt EXCEPT ![spa_id] = "failed"]
    /\ initPc' = Advance(initPc)
    /\ ev' = Ev("initialize", spa_id, "ConnectionFailure")
    /\ UNCHANGED <<controllers, dev>>

\* lines 27 and 251: connect returns; the controller is registered
ConnectSucceeds(spa_id, d) ==
    /\ ctl' = [ctl EXCEPT ![spa_id].connected = TRUE]
    /\ dev' = [dev EXCEPT ![spa_id] = d]
    /\ controllers' = Put(controllers, spa_id)
    /\ attempt' = [attempt EXCEPT ![spa_id] = "ok"]
    /\ initPc' = Advance(initPc)
    /\ ev' = Ev("initialize", spa_id, "registered")

\* line 21: client.connect() returns or raises
ConnectReturns ==
    /\ phase = "startup" /\ initPc.at = "connect"
    /\ \E ok \in BOOLEAN :
        IF ok
        THEN /\ initPc' = [initPc EXCEPT !.at = "configuration"]
             /\ ev' = Ev("initialize", configs[initPc.i].spa_id, "connected")
             /\ UNCHANGED <<controllers, ctl, dev, attempt>>
        ELSE ConnectFails(configs[initPc.i].spa_id)
    /\ InitFrame

\* line 25: client.async_configuration_loaded() returns or raises; the device
\* d is what the handle then shows
ConfigurationReturns ==
    /\ phase = "startup" /\ initPc.at = "configuration"
    /\ \E ok \in BOOLEAN, d \in SystemDevices :
        IF ok
        THEN ConnectSucceeds(configs[initPc.i].spa_id, d)
        ELSE ConnectFails(configs[initPc.i].spa_id)
    /\ InitFrame

\* main.py lines 46-50: initialize returns, the monitor task is created and
\* the application starts serving
InitReturns ==
    /\ phase = "startup" /\ initPc.at = "loop" /\ initPc.i > Len(configs)
    /\ phase' = "serving"
    /\ monPc' = "fetch"
    /\ ev' = Ev("initialize", 0, "done")
    /\ UNCHANGED <<configs, controllers, ctl, dev, calls, attempt, initPc, shutPc,
                   sleepFor, bcast, active_connections, sockets, dropped>>

-----------------------------------------------------------------------------
(* main.py lines 52-54: shutdown; spa_controller.py lines 258-262:           *)
(* disconnect_all, with SpaController.disconnect, lines 34-43                *)

ShutFrame == UNCHANGED <<configs, calls, attempt, initPc, sleepFor, bcast,
                         active_connections, sockets, dropped>>

\* BeginShutdown with a monitor task that catches the cancellation like any
\* error of a cycle: it leaves the fan-out and sleeps the longer interval
BeginShutdown_swallowed ==
    /\ phase = "serving"
    /\ phase' = "shutdown"
    /\ monPc' = "sleep"
    /\ sleepFor' = 10
    /\ bcast' = [i |-> 0, conn |-> 0, disconnected |-> <<>>, start |-> <<>>,
                 sent |-> <<>>, changed |-> FALSE]
    /\ shutPc' = [i |-> 1, at |-> "loop"]
    /\ ev' = Ev("shutdown", 0, "cancelled")
    /\ UNCHANGED <<controllers, ctl, dev>>
    /\ UNCHANGED <<configs, calls, attempt, initPc, active_connections, sockets, dropped>>

\* line 53: monitor_task.cancel(); the task is suspended at an await (or has
\* not run yet) and CancelledError, which is no Exception, ends it there
BeginShutdown ==
    /\ phase = "serving"
    /\ phase' = "shutdown"
    /\ monPc' = "cancelled"
    /\ shutPc' = [i |-> 1, at |-> "loop"]
    /\ ev' = Ev("shutdown", 0, "cancelled")
    /\ UNCHANGED <<controllers, ctl, dev>>
    /\ ShutFrame

\* lines 260-261 and 36-38: the next controller; with a client, its
\* client.disconnect() is awaited
DisconnectNext ==
    /\ phase = "shutdown" /\ shutPc.at = "loop" /\ shutPc.i <= Len(controllers)
    /\ shutPc' = IF ctl[controllers[shutPc.i]].client
                 THEN [shutPc EXCEPT !.at = "disconnect"]
                 ELSE Advance(shutPc)
    /\ ev' = Ev("disconnect", controllers[shutPc.i], "disconnecting")
    /\ UNCHANGED <<phase, controllers, ctl, dev, monPc>>
    /\ ShutFrame

\* DisconnectReturns without the except clause: an exception of
\* client.disconnect() still runs the finally clause, and ends disconnect_all
\* before the remaining controllers and the clear()
DisconnectReturns_propagates ==
    /\ phase = "shutdown" /\ shutPc.at = "disconnect"
    /\ \E ok \in BOOLEAN :
        LET spa_id == controllers[shutPc.i] IN
        /\ ctl' = [ctl EXCEPT ![spa_id].connected = FALSE, ![spa_id].client = FALSE]
        /\ dev' = [dev EXCEPT ![spa_id] = NoDevice]
        /\ shutPc' = Advance(shutPc)
        /\ phase' = IF ok THEN phase ELSE "stopped"
        /\ ev' = Ev("disconnect", spa_id, IF ok THEN "success" ELSE "raised")
    /\ UNCHANGED <<controllers, monPc>>
    /\ ShutFrame

\* lines 39-43: client.disconnect() returns or raises; either way the
\* controller drops its handle
DisconnectReturns ==
    /\ phase = "shutdown" /\ shutPc.at = "disconnect"
    /\ \E ok \in BOOLEAN :
        LET spa_id == controllers[shutPc.i] IN
        /\ ctl' = [ctl EXCEPT ![spa_id].connected = FALSE, ![spa_id].client = FALSE]
        /\ dev' = [dev EXCEPT ![spa_id] = NoDevice]
        /\ shutPc' = Advance(shutPc)
        /\ ev' = Ev("disconnect", spa_id, IF ok THEN "success" ELSE "swallowed")
    /\ UNCHANGED <<phase, controllers, monPc>>
    /\ ShutFrame

\* line 262: self.controllers.clear(); the process stops
DisconnectAllReturns ==
    /\ phase = "shutdown" /\ shutPc.at = "loop" /\ shutPc.i > Len(controllers)
    /\ controllers' = <<>>
    /\ phase' = "stopped"
    /\ ev' = Ev("shutdown", 0, "done")
    /\ UNCHANGED <<ctl, dev, shutPc, monPc>>
    /\ ShutFrame

-----------------------------------------------------------------------------
(* main.py: monitor_spas, lines 22-40, and ConnectionManager.broadcast,      *)
(* lines 72-84.  The message sent is the serialised result of the fetch; it  *)
(* is kept in ev.result of the step that fetched it.  The task runs from its *)
(* creation (monPc = "fetch") until it is cancelled (monPc = "cancelled").   *)

NormalInterval == 5
BackoffInterval == 10

\* i: the position of the for loop's iterator; conn: the connection whose
\* send_text is awaited; disconnected: the local list.  History of the
\* fan-out in progress: start, the registry when it began; sent, the
\* connections send_text was called on; changed, whether a subscriber
\* connected or disconnected since it began.
NoBroadcast == [i |-> 0, conn |-> 0, disconnected |-> <<>>, start |-> <<>>,
                sent |-> <<>>, changed |-> FALSE]

\* the registry changes: a fan-out in progress is no longer undisturbed
Disturbed == IF monPc = "send" THEN [bcast EXCEPT !.changed = TRUE] ELSE bcast

MonFrame == UNCHANGED <<phase, configs, controllers, dev, calls, attempt, initPc,
                        shutPc, sockets>>

Quiet == UNCHANGED <<bcast, active_connections, dropped>>

RECURSIVE RemoveFirst(_, _)
\* list.remove(x), for an x the list holds
RemoveFirst(list, x) ==
    IF list = <<>> THEN <<>>
    ELSE IF Head(list) = x THEN Tail(list)
    ELSE <<Head(list)>> \o RemoveFirst(Tail(list), x)

\* Prune that leaves the failed connections in the list
Prune_keeps(list, disconnected) == list

RECURSIVE Prune(_, _)
\* lines 82-84
Prune(list, disconnected) ==
    IF disconnected = <<>> THEN list
    ELSE Prune(IF Head(disconnected) \in Range(list)
               THEN RemoveFirst(list, Head(disconnected))
               ELSE list,
               Tail(disconnected))

\* lines 26-36 and 73-76: a cycle fetches every status, serialises and enters
\* the fan-out, up to the first send_text it awaits; with no subscriber the
\* fan-out returns at once and the loop sleeps (line 37)
MonitorCycle ==
    /\ monPc = "fetch"
    /\ \E faults \in [Keys(controllers) -> Faults] :
        LET got == Manager_get_all_status(faults) IN
        /\ ctl' = Cached(got)
        /\ IF StatusOutcome(got) = "raised"
           THEN /\ monPc' = "sleep"                    \* lines 38-40
                /\ sleepFor' = BackoffInterval
                /\ ev' = Ev("monitor", 0, "error")
                /\ Quiet
           ELSE /\ ev' = [Ev("monitor", 0, "fetched") EXCEPT
                            !.faults = faults,
                            !.result = [k \in DOMAIN got |-> got[k].status]]
                /\ IF active_connections = <<>>
                   THEN /\ monPc' = "sleep"
                        /\ sleepFor' = NormalInterval
                        /\ Quiet
                   ELSE /\ monPc' = "send"
                        /\ bcast' = [i |-> 1, conn |-> active_connections[1],
                                     disconnected |-> <<>>,
                                     start |-> active_connections,
                                     sent |-> <<active_connections[1]>>,
                                     changed |-> FALSE]
                        /\ UNCHANGED <<sleepFor, active_connections, dropped>>
    /\ MonFrame

\* MonitorCycleRaises without the except clause: the exception ends the task
MonitorCycleRaises_stops ==
    /\ monPc = "fetch"
    /\ \E faults \in [Keys(controllers) -> Faults] :
        ctl' = Cached(Manager_get_all_status(faults))
    /\ monPc' = "dead"
    /\ ev' = Ev("monitor", 0, "error")
    /\ UNCHANGED sleepFor
    /\ Quiet
    /\ MonFrame

\* lines 27-35 and 38-40: after the fetch, logging or serialising raises; the
\* exception is logged and the loop sleeps the longer interval
MonitorCycleRaises ==
    /\ monPc = "fetch"
    /\ \E faults \in [Keys(controllers) -> Faults] :
        ctl' = Cached(Manager_get_all_status(faults))
    /\ monPc' = "sleep"
    /\ sleepFor' = BackoffInterval
    /\ ev' = Ev("monitor", 0, "error")
    /\ Quiet
    /\ MonFrame

\* BroadcastSendReturns that removes a failed connection from the list at
\* once, inside the for loop
BroadcastSendReturns_eager ==
    /\ monPc = "send"
    /\ \E ok \in BOOLEAN :
        LET list == IF ok \/ bcast.conn \notin Range(active_connections)
                    THEN active_connections
                    ELSE RemoveFirst(active_connections, bcast.conn)
        IN
        /\ ok => sockets[bcast.conn] = "open"
        /\ ev' = Ev("send_text", bcast.conn, IF ok THEN "delivered" ELSE "failed")
        /\ active_connections' = list
        /\ dropped' = IF ok THEN dropped ELSE dropped \cup {bcast.conn}
        /\ IF bcast.i < Len(list)
           THEN /\ bcast' = [bcast EXCEPT
                                !.i = bcast.i + 1,
                                !.conn = list[bcast.i + 1],
                                !.sent = Append(bcast.sent, list[bcast.i + 1])]
                /\ UNCHANGED <<monPc, sleepFor>>
           ELSE /\ bcast' = NoBroadcast
                /\ monPc' = "sleep"
                /\ sleepFor' = NormalInterval
    /\ UNCHANGED ctl
    /\ MonFrame

\* lines 76-84: the awaited send_text returns or raises; the iterator of the
\* for loop then reads the list as it is now, and when it is exhausted the
\* failed connections are removed and the loop sleeps (line 37)
BroadcastSendReturns ==
    /\ monPc = "send"
    /\ \E ok \in BOOLEAN :
        LET disconnected == IF ok THEN bcast.disconnected
                            ELSE Append(bcast.disconnected, bcast.conn)
        IN
        /\ ok => sockets[bcast.conn] = "open"
        /\ ev' = Ev("send_text", bcast.conn, IF ok THEN "delivered" ELSE "failed")
        /\ IF bcast.i < Len(active_connections)
           THEN /\ bcast' = [bcast EXCEPT
                                !.i = bcast.i + 1,
                                !.conn = active_connections[bcast.i + 1],
                                !.disconnected = disconnected,
                                !.sent = Append(bcast.sent,
                                                active_connections[bcast.i + 1])]
                /\ UNCHANGED <<monPc, sleepFor, active_connections, dropped>>
           ELSE /\ active_connections' = Prune(active_connections, disconnected)
                /\ dropped' = dropped \cup Range(disconnected)
                /\ bcast' = NoBroadcast
                /\ monPc' = "sleep"
                /\ sleepFor' = NormalInterval
    /\ UNCHANGED ctl
    /\ MonFrame

\* lines 37 and 40: asyncio.sleep returns and the loop starts over
MonitorWakes ==
    /\ monPc = "sleep"
    /\ monPc' = "fetch"
    /\ ev' = Ev("monitor", 0, "wake")
    /\ UNCHANGED <<ctl, sleepFor>>
    /\ Quiet
    /\ MonFrame

-----------------------------------------------------------------------------
(* main.py: websocket_endpoint, lines 88-98, with ConnectionManager.connect  *)
(* and disconnect, lines 65-70                                               *)

Sockets == 1..MaxSockets

WsFrame == UNCHANGED <<phase, configs, controllers, ctl, dev, calls, attempt,
                       initPc, shutPc, monPc, sleepFor, dropped>>

\* line 66: a client connects; websocket.accept() is awaited
WsConnect ==
    \E w \in Sockets :
        /\ Serving /\ sockets[w] = "new"
        /\ sockets' = [sockets EXCEPT ![w] = "accepting"]
        /\ ev' = Ev("websocket", w, "accepting")
        /\ UNCHANGED <<active_connections, bcast>>
        /\ WsFrame

\* lines 67 and 94: accept returns, the socket is appended to the registry
\* and receive_text() is awaited; or accept raises and the endpoint ends
WsAccepted ==
    \E w \in Sockets, ok \in BOOLEAN :
        /\ Serving /\ sockets[w] = "accepting"
        /\ sockets' = [sockets EXCEPT ![w] = IF ok THEN "open" ELSE "failed"]
        /\ active_connections' = IF ok THEN Append(active_connections, w)
                                 ELSE active_connections
        /\ bcast' = IF ok THEN Disturbed ELSE bcast
        /\ ev' = Ev("websocket", w, IF ok THEN "open" ELSE "failed")
        /\ WsFrame

\* lines 93-95: an inbound message is read and ignored
WsMessage ==
    \E w \in Sockets :
        /\ Serving /\ sockets[w] = "open"
        /\ ev' = Ev("websocket", w, "message")
        /\ UNCHANGED <<sockets, active_connections, bcast>>
        /\ WsFrame

\* lines 96-98 and 70: receive_text() raises WebSocketDisconnect and the
\* socket is removed from the registry; list.remove raises ValueError for a
\* socket the registry does not hold and the endpoint ends with that error
WsDisconnect ==
    \E w \in Sockets :
        /\ Serving /\ sockets[w] = "open"
        /\ IF w \in Range(active_connections)
           THEN /\ active_connections' = RemoveFirst(active_connections, w)
                /\ bcast' = Disturbed
                /\ sockets' = [sockets EXCEPT ![w] = "closed"]
                /\ ev' = Ev("websocket", w, "closed")
           ELSE /\ sockets' = [sockets EXCEPT ![w] = "failed"]
                /\ ev' = Ev("websocket", w, "ValueError")
                /\ UNCHANGED <<active_connections, bcast>>
        /\ WsFrame

-----------------------------------------------------------------------------
(* Specifications *)

Idle ==
    /\ calls = <<>>
    /\ shutPc = [i |-> 0, at |-> "idle"]
    /\ sleepFor = 0
    /\ bcast = NoBroadcast
    /\ active_connections = <<>>
    /\ sockets = [w \in Sockets |-> "new"]
    /\ dropped = {}
    /\ ev = Ev("start", 0, "none")

\* The state in which the application starts serving a single spa, spa 1
\* (SPA1_IP set and SPA2_IP not), whose handle shows the device d
ServingOne(d) ==
    /\ phase = "serving"
    /\ configs = load_spa_configs(TRUE, FALSE)
    /\ controllers = <<1>>
    /\ ctl = [k \in SpaIds |->
                IF k = 1 THEN [NewController EXCEPT !.connected = TRUE, !.client = TRUE]
                ELSE NewController]
    /\ dev = [k \in SpaIds |-> IF k = 1 THEN d ELSE NoDevice]
    /\ attempt = [k \in SpaIds |-> IF k = 1 THEN "ok" ELSE "none"]
    /\ initPc = [i |-> 2, at |-> "loop"]
    /\ Idle

\* The process from its start: lifespan calls initialize
Init ==
    /\ phase = "startup"
    /\ configs \in ConfigLists
    /\ controllers = <<>>
    /\ ctl = [k \in SpaIds |-> NewController]
    /\ dev = [k \in SpaIds |-> NoDevice]
    /\ attempt = [k \in SpaIds |-> "none"]
    /\ initPc = [i |-> 1, at |-> "loop"]
    /\ monPc = "off"
    /\ Idle

Initialize == InitConnect \/ InitSkip \/ ConnectReturns \/ ConfigurationReturns
                  \/ InitReturns

Shutdown == BeginShutdown \/ DisconnectNext \/ DisconnectReturns
                \/ DisconnectAllReturns

Commands == api_set_temperature \/ api_cycle_pump \/ api_cycle_light
                \/ api_toggle_light \/ CallReturns

Statuses == api_get_status \/ api_get_spa_status

Monitor == MonitorCycle \/ MonitorCycleRaises \/ BroadcastSendReturns
               \/ MonitorWakes

WebSockets == WsConnect \/ WsAccepted \/ WsMessage \/ WsDisconnect

\* The whole program
Next == Initialize \/ Commands \/ Statuses \/ Monitor \/ WebSockets \/ Shutdown

Spec == Init /\ [][Next]_vars

\* The status mapper: one registered spa with any device of Devices, status
\* requests and shutdown
InitStatus == monPc = "off" /\ \E d \in Devices : ServingOne(d)

NextStatus == Statuses \/ Shutdown

SpecStatus == InitStatus /\ [][NextStatus]_vars

\* The command methods: one registered spa with any device of Devices and
\* command requests
InitCmd == monPc = "off" /\ \E d \in Devices : ServingOne(d)

NextCmd == Commands

SpecCmd == InitCmd /\ [][NextCmd]_vars

\* The manager from start to stop: initialize, status requests, shutdown
NextLife == Initialize \/ Statuses \/ Shutdown

SpecLife == Init /\ [][NextLife]_vars

\* The manager from start to stop: initialize, command requests, shutdown
NextDispatch == Initialize \/ Commands \/ Shutdown

SpecDispatch == Init /\ [][NextDispatch]_vars

\* The status mapper alone on every device of MapperDevices
InitMapper == monPc = "off" /\ \E d \in MapperDevices : ServingOne(d)

NextMapper == Statuses

SpecMapper == InitMapper /\ [][NextMapper]_vars

\* The light commands and the status requests on every list of lights
InitLights == monPc = "off" /\ \E d \in LightDevices : ServingOne(d)

NextLights == api_cycle_light \/ api_toggle_light \/ CallReturns \/ Statuses

SpecLights == InitLights /\ [][NextLights]_vars

\* Request handlers of both kinds on one served spa, and shutdown
InitOverlap == monPc = "off" /\ ServingOne(BaseDevice)

NextOverlap == Commands \/ Statuses \/ Shutdown

SpecOverlap == InitOverlap /\ [][NextOverlap]_vars

\* Cycle requests for one served spa that run concurrently
InitCycles == monPc = "off" /\ \E d \in CycleDevices : ServingOne(d)

NextCycles == concurrent_cycle_pump \/ concurrent_cycle_light \/ CallReturns

SpecCycles == InitCycles /\ [][NextCycles]_vars

\* The polling loop and the subscriber registry while one spa is served, and
\* shutdown
InitPush == monPc = "fetch" /\ ServingOne(BaseDevice)

NextPush == Monitor \/ WebSockets \/ Shutdown

SpecPush == InitPush /\ [][NextPush]_vars

\* The scheduler runs a task whose await has completed, and the model takes
\* every awaited send_text and sleep of the monitor task to return
FairPush ==
    /\ WF_vars(MonitorCycle \/ MonitorCycleRaises)
    /\ WF_vars(BroadcastSendReturns)
    /\ WF_vars(MonitorWakes)

SpecPushFair == SpecPush /\ FairPush

\* disconnect_all is a coroutine the scheduler resumes, and the model takes
\* every awaited client.disconnect() to return or raise
FairStop ==
    /\ FairPush
    /\ WF_vars(DisconnectNext \/ DisconnectReturns \/ DisconnectAllReturns)

SpecStopFair == SpecPush /\ FairStop

-----------------------------------------------------------------------------
(* Properties *)

CommandOps == {"set_temperature", "cycle_pump", "cycle_light", "set_light"}

\* the step is a handler dispatching a command, up to its first await
IsDispatch(e) == e.op \in CommandOps /\ e.arg # None

\* the step is the return of an awaited device call
IsReturn(e) == e.op \in CommandOps /\ e.arg = None

Live(spa_id) == ctl[spa_id].connected /\ ctl[spa_id].client

\* C1: every command dispatched for a spa_id that is no key of the controller
\* mapping fails with NotFound, every command dispatched for a registered
\* spa_id whose controller is not connected or has no client fails with
\* NotConnected, and in both cases no device call is issued and no handle
\* changes.
C1_DispatchErrors ==
    [][IsDispatch(ev') =>
        /\ ev'.id \notin Keys(controllers) =>
              ev'.outcome = "NotFound" /\ calls' = calls /\ dev' = dev
        /\ (ev'.id \in Keys(controllers) /\ ~Live(ev'.id)) =>
              ev'.outcome = "NotConnected" /\ calls' = calls /\ dev' = dev]_vars

\* a command was refused for a registered spa that disconnect_all has
\* already disconnected, while another spa_id is not registered at all
C1_Witness ==
    /\ ev.op = "cycle_pump" /\ ev.outcome = "NotConnected"
    /\ ev.id \in Keys(controllers) /\ ~ctl[ev.id].client
    /\ \E other \in SpaIds : attempt[other] = "failed"

\* C2: cycle_pump on a connected spa, for a pump index that has a device in
\* state s, requests (s + 1) mod 3 when s is 0, 1 or 2 and 0 for any other s;
\* a call that succeeds leaves that pump in the requested state, which is in
\* {0, 1, 2}, so sequential cycles follow Off -> Low -> High -> Off.
C2_PumpCycle ==
    [][/\ (/\ IsDispatch(ev') /\ ev'.op = "cycle_pump"
           /\ ev'.id \in Keys(controllers) /\ Live(ev'.id)
           /\ Val(ev'.arg) >= 0 /\ Val(ev'.arg) < Len(dev[ev'.id].pumps)
           /\ ~IsNone(dev[ev'.id].pumps[Val(ev'.arg) + 1]))
          => LET s == Val(dev[ev'.id].pumps[Val(ev'.arg) + 1]) IN
             /\ ev'.outcome = "pending"
             /\ ev'.req = Some(IF s \in {0, 1, 2} THEN (s + 1) % 3 ELSE 0)
             /\ calls' = Append(calls, [op |-> "cycle_pump", spa |-> ev'.id,
                                        target |-> "pump", slot |-> Val(ev'.arg) + 1,
                                        value |-> Val(ev'.req)])
       /\ \A i \in DOMAIN calls :
            (/\ calls[i].op = "cycle_pump" /\ calls' = RemoveAt(calls, i)
             /\ IsReturn(ev') /\ ev'.outcome = "success")
            => /\ calls[i].value \in {0, 1, 2}
               /\ dev'[calls[i].spa].pumps[calls[i].slot] = Some(calls[i].value)]_vars

\* pump 0 is High and the cycle that was requested turns it Off
C2_Witness ==
    /\ ev.op = "cycle_pump" /\ ev.outcome = "pending" /\ ev.arg = Some(0)
    /\ dev[ev.id].pumps[1] = Some(2)
    /\ ev.req = Some(0)

\* C3: cycle_light on a connected spa whose light 0 is in state s requests
\* (s + 1) mod N when the light has an options list of length N >= 1; without
\* options it requests 1 for s = 0 and 0 otherwise, so the request is in
\* {0, 1} and differs from s; a call that succeeds leaves the light in the
\* requested state, so repeated cycling without options alternates 0, 1, 0.
C3_LightCycle ==
    [][/\ (/\ IsDispatch(ev') /\ ev'.op = "cycle_light"
           /\ ev'.id \in Keys(controllers) /\ Live(ev'.id)
           /\ Len(dev[ev'.id].lights) > 0 /\ ~IsNone(dev[ev'.id].lights[1]))
          => LET light == Val(dev[ev'.id].lights[1])
                 N == Len(light.options)
             IN
             /\ ev'.outcome = "pending"
             /\ N >= 1 => ev'.req = Some((light.state + 1) % N)
             /\ N = 0 => /\ Val(ev'.req) \in {0, 1}
                         /\ Val(ev'.req) # light.state
                         /\ light.state \in {0, 1} => Val(ev'.req) = 1 - light.state
       /\ \A i \in DOMAIN calls :
            (/\ calls[i].op = "cycle_light" /\ calls' = RemoveAt(calls, i)
             /\ IsReturn(ev') /\ ev'.outcome = "success")
            => Val(dev'[calls[i].spa].lights[1]).state = calls[i].value]_vars

\* a light with three options in its last state is asked to wrap to state 0
C3_Witness ==
    /\ ev.op = "cycle_light" /\ ev.outcome = "pending"
    /\ Len(dev[ev.id].lights) > 0 /\ ~IsNone(dev[ev.id].lights[1])
    /\ Val(dev[ev.id].lights[1]).options = LightOptions
    /\ Val(dev[ev.id].lights[1]).state = 2
    /\ ev.req = Some(0)

\* the configs name spa_id and enable it
Enabled(spa_id) ==
    \E i \in DOMAIN configs : configs[i].spa_id = spa_id /\ configs[i].enabled

\* the configs name spa_id and disable it
Disabled(spa_id) ==
    \E i \in DOMAIN configs : configs[i].spa_id = spa_id /\ ~configs[i].enabled

\* spa_id was enabled and its connect succeeded
Connected(spa_id) == Enabled(spa_id) /\ attempt[spa_id] = "ok"

\* C4: once initialize has completed, the keys of the controller mapping are
\* exactly the spa_ids of the enabled configs whose connect succeeded, each
\* once; a disabled config was never attempted; get_all_status returns one
\* entry for each of those spa_ids and no other; every command for a spa whose
\* connect failed fails with NotFound.
C4_InitializeRegistersConnected ==
    phase = "serving" =>
        /\ Keys(controllers) = {k \in SpaIds : Connected(k)}
        /\ Len(controllers) = Cardinality(Keys(controllers))
        /\ \A k \in SpaIds :
              (Disabled(k) /\ ~Enabled(k)) =>
                  attempt[k] = "none" /\ ctl[k] = NewController
        /\ ev.op = "get_status" =>
              /\ DOMAIN ev.result = {k \in SpaIds : Connected(k)}
              /\ \A k \in DOMAIN ev.result : ev.result[k].spa_id = k
        /\ \A k \in SpaIds :
              attempt[k] = "failed" =>
                  /\ \A t \in Temperatures :
                        Manager_set_temperature(k, t).outcome = "NotFound"
                  /\ \A p \in PumpIds(dev[k]) :
                        Manager_cycle_pump(k, p).outcome = "NotFound"
                  /\ Manager_cycle_light(k).outcome = "NotFound"
                  /\ \A b \in BOOLEAN : Manager_set_light(k, b).outcome = "NotFound"

\* two enabled spas, spa 1 connected and spa 2 failed to: get_all_status
\* returned the one entry of spa 1
C4_Witness ==
    /\ phase = "serving"
    /\ Enabled(1) /\ Enabled(2)
    /\ attempt[1] = "ok" /\ attempt[2] = "failed"
    /\ ev.op = "get_status" /\ DOMAIN ev.result = {1}

\* C5 as stated: in every reachable state a controller is in the mapping if
\* and only if its config was enabled and its initial connect succeeded.
C5_Original ==
    \A k \in SpaIds : k \in Keys(controllers) <=> Connected(k)

\* C5, amended: until disconnect_all clears the mapping (during
\* initialization, while serving and while disconnect_all disconnects the
\* controllers) a controller is in the mapping if and only if its config was
\* enabled and its initial connect succeeded; once disconnect_all has
\* returned the mapping is empty.
C5_MappingUntilCleared ==
    /\ phase # "stopped" => \A k \in SpaIds : k \in Keys(controllers) <=> Connected(k)
    /\ phase = "stopped" => controllers = <<>>

\* disconnect_all has returned: a spa that was enabled and connected is no
\* longer in the mapping
C5_Witness ==
    /\ phase = "stopped"
    /\ \E k \in SpaIds : Connected(k) /\ k \notin Keys(controllers)

\* models.py lines 6-16: a SpaStatus with nothing but spa_id and connected set
AllDefault(spa_id, connected) ==
    [spa_id |-> spa_id, connected |-> connected, current_temp |-> <<>>,
     target_temp |-> <<>>, heat_mode |-> <<>>, pumps |-> <<>>, lights |-> FALSE,
     light_mode |-> <<>>, filter_mode |-> <<>>, circulation_pump |-> FALSE,
     mac_address |-> <<>>]

\* the step is a status request
IsFetch(e) == e.op \in {"get_status", "get_spa_status"}

\* C6: get_status on a controller whose connected flag is false or whose
\* client is absent returns connected = false with every other field at its
\* default, and does not raise.
C6_DisconnectedStatus ==
    [][IsFetch(ev') =>
        \A k \in DOMAIN ev'.result :
            ~Live(k) => /\ ev'.outcome = "success"
                        /\ ev'.result[k] = AllDefault(k, FALSE)]_vars

\* the status of a registered spa was fetched after disconnect_all
\* disconnected it
C6_Witness ==
    /\ ev.op = "get_spa_status" /\ ev.outcome = "success"
    /\ ev.id \in Keys(controllers)
    /\ ~ctl[ev.id].connected /\ ~ctl[ev.id].client
    /\ ev.result[ev.id].connected = FALSE

\* C7: get_status on a connected controller with a client whose
\* configuration_loaded is false or missing returns connected = true, no
\* temperatures, no pumps, lights false and the MAC address of the handle, if
\* it has one; the result differs from the disconnected status, and from every
\* status of a fully ready handle, which always has a filter_mode.
C7_NotReadyStatus ==
    [][IsFetch(ev') =>
        \A k \in DOMAIN ev'.result :
            /\ (/\ Live(k) /\ ev'.faults[k] # "configuration_loaded"
                /\ dev[k].configuration_loaded \in {None, Some(FALSE)})
               => /\ ev'.result[k] =
                        [AllDefault(k, TRUE) EXCEPT !.mac_address = dev[k].mac_address]
                  /\ ev'.result[k] # AllDefault(k, FALSE)
            /\ (/\ Live(k) /\ ev'.faults[k] = "none"
                /\ dev[k].configuration_loaded = Some(TRUE))
               => /\ ev'.result[k].connected
                  /\ ev'.result[k].filter_mode # None]_vars

\* a handle without the readiness flag, with a MAC address: the status is
\* connected, has the MAC address and no temperatures
C7_Witness ==
    /\ ev.op = "get_spa_status" /\ ev.id \in Keys(controllers) /\ Live(ev.id)
    /\ dev[ev.id].configuration_loaded = None
    /\ dev[ev.id].mac_address # None /\ dev[ev.id].temperature # None
    /\ ev.result[ev.id].connected
    /\ ev.result[ev.id].mac_address = dev[ev.id].mac_address
    /\ ev.result[ev.id].current_temp = None

\* probing the handle d raises in a fetch with this fault: the readiness
\* probe always runs, the others only on a ready handle
Raises(d, fault) ==
    \/ fault = "configuration_loaded"
    \/ fault # "none" /\ d.configuration_loaded = Some(TRUE)

\* C8: a status request never raises out of get_status: when probing the
\* handle raises, at any place, the status returned for that spa is the
\* disconnected one, and get_spa_status for a registered id succeeds.
C8_StatusNeverRaises ==
    [][IsFetch(ev') =>
        /\ ev'.outcome # "raised"
        /\ (ev'.op = "get_spa_status" /\ ev'.id \in Keys(controllers)) =>
              ev'.outcome = "success" /\ DOMAIN ev'.result = {ev'.id}
        /\ \A k \in DOMAIN ev'.result :
              (Live(k) /\ Raises(dev[k], ev'.faults[k])) =>
                  ev'.result[k] = AllDefault(k, FALSE)]_vars

\* reading the lights of a ready, connected handle raised and the status
\* came back disconnected
C8_Witness ==
    /\ ev.op = "get_spa_status" /\ ev.outcome = "success"
    /\ ev.id \in Keys(controllers) /\ Live(ev.id)
    /\ dev[ev.id].configuration_loaded = Some(TRUE)
    /\ ev.faults[ev.id] = "lights"
    /\ ev.result[ev.id] = AllDefault(ev.id, FALSE)

\* C9: when a fan-out returns, no subscriber whose delivery failed in it is
\* in the registry, and from then on the subscriber is never in the registry
\* and no broadcast cycle attempts a delivery to it.
C9_FailedSubscriberDropped ==
    /\ [][(monPc = "send" /\ monPc' = "sleep") =>
            \A w \in Range(bcast.disconnected)
                       \cup (IF ev'.outcome = "failed" THEN {bcast.conn} ELSE {}) :
                w \notin Range(active_connections') /\ w \in dropped']_vars
    /\ [](\A w \in dropped :
              /\ w \notin Range(active_connections)
              /\ monPc = "send" => bcast.conn # w)

\* a later fan-out delivers to another subscriber while a subscriber that an
\* earlier fan-out dropped is still connected
C9_Witness ==
    /\ monPc = "send"
    /\ bcast.conn \notin dropped
    /\ \E w \in dropped : sockets[w] = "open"

\* a fetch cycle begins
CycleBegins == ev.op = "monitor" /\ ev.outcome \in {"fetched", "error"}

\* C10: an error raised in a cycle does not end the polling loop: the loop
\* sleeps 10 seconds after that cycle, every sleep ends in another cycle (or
\* in the cancellation at shutdown), a cycle that completes sleeps 5 seconds,
\* and while the application is serving another cycle always eventually
\* begins, unless shutdown begins first.
C10_LoopSurvivesErrors ==
    /\ [][(ev'.op = "monitor" /\ ev'.outcome = "error") =>
            monPc' = "sleep" /\ sleepFor' = 10]_vars
    /\ [][(monPc \in {"fetch", "send"} /\ monPc' = "sleep" /\ ev'.outcome # "error") =>
            sleepFor' = 5]_vars
    /\ [][(monPc = "sleep" /\ monPc' # "sleep") =>
            monPc' \in {"fetch", "cancelled"}]_vars
    /\ [](phase = "serving" => monPc \in {"fetch", "send", "sleep"})
    /\ (phase = "serving" /\ ~CycleBegins) ~> (CycleBegins \/ phase # "serving")

\* after the back-off sleep of a failed cycle a new cycle has fetched and is
\* broadcasting
C10_Witness ==
    /\ phase = "serving"
    /\ ev.op = "monitor" /\ ev.outcome = "fetched"
    /\ sleepFor = BackoffInterval
    /\ monPc = "send"

\* C11: get_all_status returns one entry for every controller in the mapping,
\* keyed by its spa_id; the entry of a spa whose fetch fails or whose
\* controller is not connected is the disconnected status, and the entry of
\* every other spa shows its own handle, whatever happens to the others.
C11_AllStatusIndependent ==
    [][ev'.op = "get_status" =>
        /\ DOMAIN ev'.result = Keys(controllers)
        /\ \A k \in Keys(controllers) :
            /\ ev'.result[k].spa_id = k
            /\ (~Live(k) \/ Raises(dev[k], ev'.faults[k])) =>
                  ev'.result[k] = AllDefault(k, FALSE)
            /\ (Live(k) /\ ~Raises(dev[k], ev'.faults[k])) =>
                  /\ ev'.result[k].connected
                  /\ ev'.result[k].mac_address = dev[k].mac_address
                  /\ dev[k].configuration_loaded = Some(TRUE) =>
                        /\ ev'.result[k].current_temp = dev[k].temperature
                        /\ ev'.result[k].target_temp = dev[k].target_temperature]_vars

\* two registered spas: reading the pumps of spa 1 raised, and the entry of
\* spa 2 is connected and has its temperature
C11_Witness ==
    /\ ev.op = "get_status" /\ Keys(controllers) = {1, 2}
    /\ Live(1) /\ Live(2)
    /\ ev.faults[1] = "pumps" /\ ev.faults[2] = "none"
    /\ ~ev.result[1].connected
    /\ ev.result[2].connected /\ ev.result[2].current_temp = dev[2].temperature

\* C12: a disconnect that raises is swallowed: the controller still drops its
\* handle and disconnect_all goes on to the next controller; when
\* disconnect_all has returned the mapping is empty and every controller that
\* was registered has connected = false and no client.
C12_DisconnectAllBestEffort ==
    /\ [][(ev'.op = "disconnect" /\ ev'.outcome # "disconnecting") =>
            /\ ev'.outcome \in {"success", "swallowed"}
            /\ ~ctl'[ev'.id].connected /\ ~ctl'[ev'.id].client
            /\ phase' = "shutdown"
            /\ controllers' = controllers
            /\ shutPc' = [i |-> shutPc.i + 1, at |-> "loop"]]_vars
    /\ [][(phase = "shutdown" /\ phase' = "stopped") =>
            /\ shutPc.i = Len(controllers) + 1
            /\ \A k \in Keys(controllers) : ~ctl[k].connected /\ ~ctl[k].client]_vars
    /\ [](phase = "stopped" =>
            /\ controllers = <<>>
            /\ \A k \in SpaIds : attempt[k] = "ok" =>
                  ~ctl[k].connected /\ ~ctl[k].client)

\* the disconnect of the first of two registered controllers raised, and the
\* second is still to be disconnected
C12_Witness ==
    /\ phase = "shutdown"
    /\ ev.op = "disconnect" /\ ev.outcome = "swallowed"
    /\ Len(controllers) = 2 /\ ev.id = controllers[1]
    /\ shutPc = [i |-> 2, at |-> "loop"]
    /\ Live(controllers[2])

\* an operation on the handle of spa_id is suspended at an await: a command's
\* device call, a connect or a disconnect
Suspended(spa_id) ==
    \/ \E i \in DOMAIN calls : calls[i].spa = spa_id
    \/ /\ phase = "startup" /\ initPc.at \in {"connect", "configuration"}
       /\ configs[initPc.i].spa_id = spa_id
    \/ /\ phase = "shutdown" /\ shutPc.at = "disconnect"
       /\ controllers[shutPc.i] = spa_id

\* the step e, taken from the current state, starts a command or a status
\* fetch on the handle of spa_id
StartsOn(e, spa_id) ==
    /\ spa_id \in Keys(controllers) /\ Live(spa_id)
    /\ \/ IsDispatch(e) /\ e.id = spa_id
       \/ e.op = "get_spa_status" /\ e.id = spa_id
       \/ e.op = "get_status"

\* C13: a command or a status fetch never starts on a spa's handle while
\* another command, a connect or a disconnect on the same handle is suspended
\* at an await.
C13_NoOverlap ==
    [][\A k \in SpaIds : StartsOn(ev', k) => ~Suspended(k)]_vars

\* the fetch of spa_id in this step reads a ready handle and nothing raises
ReadyFetch(e, spa_id) ==
    /\ IsFetch(e) /\ spa_id \in DOMAIN e.result
    /\ Live(spa_id) /\ e.faults[spa_id] = "none"
    /\ dev[spa_id].configuration_loaded = Some(TRUE)

\* the positions (from 1) of a list that hold a device
Present(list) == {i \in DOMAIN list : list[i] # None}

\* the first device of a list that holds one
FirstPresent(list) ==
    Val(list[CHOOSE i \in Present(list) : \A j \in Present(list) : i <= j])

\* the label the claim gives a light: the option at its state, MODE_<state>
\* beyond the options, STATE_<state> without options
ClaimedLabel(light) ==
    IF Len(light.options) > 0
    THEN IF light.state < Len(light.options)
         THEN light.options[light.state + 1]
         ELSE "MODE_" \o IntToStr(light.state)
    ELSE "STATE_" \o IntToStr(light.state)

\* C14 as stated: for a ready handle, lights = (state > 0) of the tracked
\* light and light_mode is its label, for every state, state 0 included.
C14_Original ==
    [][\A k \in SpaIds :
        (ReadyFetch(ev', k) /\ Present(dev[k].lights) # {}) =>
            LET light == FirstPresent(dev[k].lights) IN
            /\ ev'.result[k].lights = (light.state > 0)
            /\ ev'.result[k].light_mode = Some(ClaimedLabel(light))]_vars

\* C14, amended: for a ready handle, lights = (state > 0) of the tracked
\* light; light_mode is the literal OFF when that state is 0, and for a state
\* above 0 it is the option at the state, MODE_<state> beyond the options and
\* STATE_<state> without options.
C14_LightLabel ==
    [][\A k \in SpaIds :
        (ReadyFetch(ev', k) /\ Present(dev[k].lights) # {}) =>
            LET light == FirstPresent(dev[k].lights) IN
            /\ ev'.result[k].lights = (light.state > 0)
            /\ light.state = 0 => ev'.result[k].light_mode = Some("OFF")
            /\ light.state > 0 =>
                  ev'.result[k].light_mode = Some(ClaimedLabel(light))]_vars

\* a light whose options are enumeration members is off, and its label is
\* OFF, not the option at state 0
C14_Witness ==
    /\ ev.op = "get_spa_status" /\ ev.id \in Keys(controllers) /\ Live(ev.id)
    /\ ev.faults[ev.id] = "none"
    /\ dev[ev.id].lights = <<Some([state |-> 0, options |-> EnumOptions])>>
    /\ ev.result[ev.id].light_mode = Some("OFF")
    /\ ev.result[ev.id].light_mode # Some(EnumOptions[1])

\* C15: for a ready handle, the keys of the pumps map are the positions (from
\* 0) at which the handle has a pump device, each with that pump's state, and
\* circulation_pump is true exactly when there is a circulation pump whose
\* state is above 0.
C15_PumpsMap ==
    [][\A k \in SpaIds :
        ReadyFetch(ev', k) =>
            /\ DOMAIN ev'.result[k].pumps = {i - 1 : i \in Present(dev[k].pumps)}
            /\ \A i \in Present(dev[k].pumps) :
                  ev'.result[k].pumps[i - 1] = Val(dev[k].pumps[i])
            /\ ev'.result[k].circulation_pump =
                  (/\ dev[k].circulation_pump # None
                   /\ Val(dev[k].circulation_pump) > 0)]_vars

\* position 0 is empty and the pump at position 1 is High: the map has the one
\* key 1
C15_Witness ==
    /\ ev.op = "get_spa_status" /\ ev.id \in Keys(controllers) /\ Live(ev.id)
    /\ ev.faults[ev.id] = "none"
    /\ dev[ev.id].pumps = <<None, Some(2)>>
    /\ DOMAIN ev.result[ev.id].pumps = {1}
    /\ ev.result[ev.id].pumps[1] = 2

\* the handle d with its pump at position slot (from 1) left out of account
ExceptPump(d, slot) ==
    [d EXCEPT !.pumps = [i \in DOMAIN d.pumps |-> IF i = slot THEN None ELSE d.pumps[i]]]

\* C16: cycle_pump(pump_id) on a connected spa touches at most the pump at
\* position pump_id: dispatching it changes no handle, no controller and not
\* the mapping; when position pump_id holds a device the one call it issues
\* is on that position, and the return of the call changes nothing but that
\* pump; when position pump_id holds no device (beyond the list, an empty
\* slot, a negative number) it issues no call and returns without error.
C16_PumpFrame ==
    [][/\ (/\ IsDispatch(ev') /\ ev'.op = "cycle_pump"
           /\ ev'.id \in Keys(controllers) /\ Live(ev'.id))
          => LET pump_id == Val(ev'.arg)
                 pumps == dev[ev'.id].pumps
                 held == /\ pump_id >= 0 /\ pump_id < Len(pumps)
                         /\ pumps[pump_id + 1] # None
             IN
             /\ dev' = dev /\ ctl' = ctl /\ controllers' = controllers
             /\ held => /\ Len(calls') = Len(calls) + 1
                        /\ calls'[Len(calls')].target = "pump"
                        /\ calls'[Len(calls')].spa = ev'.id
                        /\ calls'[Len(calls')].slot = pump_id + 1
             /\ ~held => ev'.outcome = "success" /\ calls' = calls
       /\ \A i \in DOMAIN calls :
            (/\ calls[i].op = "cycle_pump" /\ calls' = RemoveAt(calls, i)
             /\ IsReturn(ev'))
            => /\ ctl' = ctl /\ controllers' = controllers
               /\ \A k \in SpaIds :
                     IF k = calls[i].spa
                     THEN ExceptPump(dev'[k], calls[i].slot)
                              = ExceptPump(dev[k], calls[i].slot)
                     ELSE dev'[k] = dev[k]]_vars

\* C17: only the light at index 0 is tracked and controlled: the status of a
\* ready handle has lights = (state > 0) of the light at index 0, with its
\* label when it is on, and lights = false when index 0 holds no light,
\* whatever the lights at higher indices; every call cycle_light and
\* set_light issue is on index 0 and its return changes no other light.
C17_OnlyLightZero ==
    [][/\ \A k \in SpaIds :
            ReadyFetch(ev', k) =>
                LET ls == dev[k].lights
                    has0 == Len(ls) > 0 /\ ls[1] # None
                IN
                /\ has0 => /\ ev'.result[k].lights = (Val(ls[1]).state > 0)
                           /\ Val(ls[1]).state > 0 =>
                                 ev'.result[k].light_mode = Some(ClaimedLabel(Val(ls[1])))
                /\ ~has0 => ev'.result[k].lights = FALSE
       /\ \A i \in DOMAIN calls' : calls'[i].target = "light" => calls'[i].slot = 1
       /\ \A k \in SpaIds : \A j \in DOMAIN dev[k].lights :
            j > 1 => /\ j \in DOMAIN dev'[k].lights
                     /\ dev'[k].lights[j] = dev[k].lights[j]]_vars

\* C18: in a fan-out during which no subscriber connects or disconnects, the
\* registry stays as it was when the fan-out began until the last send_text
\* has returned, however many sends fail; send_text is called on the
\* subscribers in registry order, on each once, and on all of them before the
\* fan-out returns; the registry the fan-out leaves is the one it began with,
\* in the same order, without the subscribers whose send failed.
C18_FanOutOrder ==
    /\ []((monPc = "send" /\ ~bcast.changed) =>
            /\ active_connections = bcast.start
            /\ bcast.i \in 1..Len(bcast.start)
            /\ bcast.sent = SubSeq(bcast.start, 1, bcast.i)
            /\ bcast.conn = bcast.start[bcast.i]
            /\ Range(bcast.disconnected) \subseteq Range(bcast.sent))
    /\ [][(monPc = "send" /\ monPc' = "sleep" /\ ~bcast.changed) =>
            LET failed == Range(bcast.disconnected)
                            \cup (IF ev'.outcome = "failed" THEN {bcast.conn} ELSE {})
                Survives(w) == w \notin failed
            IN
            /\ bcast.sent = bcast.start
            /\ Cardinality(Range(bcast.sent)) = Len(bcast.sent)
            /\ active_connections' = SelectSeq(bcast.start, Survives)]_vars

\* the send to the first of two subscribers failed and the send to the second
\* is awaited, with both still in the registry
C18_Witness ==
    /\ monPc = "send" /\ ~bcast.changed
    /\ Len(bcast.start) = 2 /\ bcast.i = 2
    /\ bcast.disconnected = <<bcast.start[1]>>
    /\ active_connections = bcast.start

\* the handle d has the value the call asked for
Took(d, call) ==
    IF call.target = "temperature" THEN d.target_temperature = Some(call.value)
    ELSE IF call.target = "pump" THEN d.pumps[call.slot] = Some(call.value)
    ELSE Val(d.lights[call.slot]).state = call.value

\* C19: when the device call of a command on a connected spa fails, the
\* command ends with the error and not with success: a command that ends with
\* success has left the device with the value requested, and one that ends
\* with the error has changed no handle; in both cases, as in every step of a
\* command, the mapping and every controller's connected flag and client are
\* unchanged.
C19_DeviceErrorReRaised ==
    [][/\ ev'.op \in CommandOps => ctl' = ctl /\ controllers' = controllers
       /\ \A i \in DOMAIN calls :
            (calls' = RemoveAt(calls, i) /\ IsReturn(ev')) =>
                /\ ev'.outcome \in {"success", "DeviceError"}
                /\ ev'.outcome = "success" => Took(dev'[calls[i].spa], calls[i])
                /\ ev'.outcome = "DeviceError" => dev' = dev
                /\ calls[i].spa \in Keys(controllers')
                /\ ctl'[calls[i].spa].connected /\ ctl'[calls[i].spa].client]_vars

\* set_temperature failed on the device: the handler has the error, the
\* target temperature is not the one requested and the spa is still registered
\* and connected
C19_Witness ==
    /\ IsReturn(ev) /\ ev.op = "set_temperature" /\ ev.outcome = "DeviceError"
    /\ ev.id \in Keys(controllers) /\ Live(ev.id)
    /\ dev[ev.id].target_temperature # ev.req

\* C20: the polling task is cancelled when shutdown begins, before any
\* controller is disconnected; once shutdown has begun the task takes no
\* step (no fetch, no send, no wake from a back-off); and a shutdown that has
\* begun eventually finishes, with the mapping empty and every controller
\* without its connected flag and its client.
C20_ShutdownCancelsPolling ==
    /\ [](phase \in {"shutdown", "stopped"} => monPc = "cancelled")
    /\ [][phase # "serving" => ev'.op \notin {"monitor", "send_text"}]_vars
    /\ [][ev'.op = "disconnect" => monPc = "cancelled"]_vars
    /\ (phase = "shutdown") ~>
            (/\ phase = "stopped" /\ controllers = <<>>
             /\ \A k \in SpaIds : ~ctl[k].connected /\ ~ctl[k].client)

\* the task was cancelled while a send_text of a fan-out was awaited, and the
\* shutdown has finished with the registered controller disconnected
C20_Witness ==
    /\ phase = "stopped" /\ monPc = "cancelled"
    /\ bcast.conn # 0
    /\ controllers = <<>>
    /\ \E k \in SpaIds : attempt[k] = "ok"
    /\ \A k \in SpaIds : ~ctl[k].connected /\ ~ctl[k].client

\* C21: get_status is a pure read: a status request, in every branch, issues
\* no call on a handle and changes no handle, no controller's connected flag
\* or client, not the configs and not the mapping; it changes a controller's
\* cached last status only for a spa whose handle is connected, ready and
\* probed without error, and then to the status it returns for that spa.
C21_StatusPureRead ==
    [][IsFetch(ev') =>
        /\ calls' = calls /\ dev' = dev
        /\ configs' = configs /\ controllers' = controllers
        /\ \A k \in SpaIds :
            /\ ctl'[k].connected = ctl[k].connected
            /\ ctl'[k].client = ctl[k].client
            /\ ctl'[k].last_status # ctl[k].last_status =>
                  /\ ReadyFetch(ev', k)
                  /\ ctl'[k].last_status = Some(ev'.result[k])
            /\ (k \in DOMAIN ev'.result /\ ~ReadyFetch(ev', k)) =>
                  ctl'[k].last_status = ctl[k].last_status]_vars

\* reading the lights of a connected, ready handle raised: the status came
\* back disconnected and the controller still has the status an earlier
\* fetch cached, and is still connected
C21_Witness ==
    /\ ev.op = "get_spa_status" /\ ev.id \in Keys(controllers) /\ Live(ev.id)
    /\ dev[ev.id].configuration_loaded = Some(TRUE)
    /\ ev.faults[ev.id] = "lights"
    /\ ~ev.result[ev.id].connected
    /\ ctl[ev.id].last_status # None
    /\ Val(ctl[ev.id].last_status).connected

\* how many times x occurs in a list
Count(list, x) == Cardinality({i \in DOMAIN list : list[i] = x})

\* C22: a fan-out, whatever subscribers connect or disconnect while it is
\* suspended at a send_text, calls send_text exactly once on every subscriber
\* that was in the registry when it began and is still in the registry when
\* its loop ends.
C22_FanOutUnderChange ==
    [][(monPc = "send" /\ monPc' = "sleep") =>
        \A w \in Range(bcast.start) \cap Range(active_connections) :
            Count(bcast.sent, w) = 1]_vars

\* C23: removing a subscriber is safe in every order of events: when the
\* disconnect event of a subscriber arrives after a fan-out has pruned it
\* from the registry, the removal completes without error and leaves the
\* registry as it is; and no subscriber is in the registry more than once.
C23_RemoveAlwaysSafe ==
    /\ [][\A w \in Sockets :
            (/\ sockets[w] = "open" /\ sockets'[w] # "open"
             /\ w \in dropped /\ w \notin Range(active_connections))
            => /\ ev'.outcome = "closed"
               /\ active_connections' = active_connections]_vars
    /\ [](\A w \in Sockets : Count(active_connections, w) <= 1)

\* the connect of the controller of spa_id is in progress
Connecting(spa_id) ==
    /\ phase = "startup" /\ initPc.at \in {"connect", "configuration"}
    /\ configs[initPc.i].spa_id = spa_id

\* C24: a controller that is connected has a client, and a controller has a
\* client only while it is connected or its connect is in progress: after a
\* failed connect, and after disconnect, it has connected = false and no
\* client.
C24_ClientIffConnected ==
    \A k \in SpaIds :
        /\ ctl[k].connected => ctl[k].client
        /\ ctl[k].client => (ctl[k].connected \/ Connecting(k))
        /\ (ev.op = "disconnect" /\ ev.id = k
                /\ ev.outcome \in {"success", "swallowed"}) =>
              ~ctl[k].connected /\ ~ctl[k].client

\* the state of the device a cycle call is made on
TargetState(d, call) ==
    IF call.target = "pump" THEN Val(d.pumps[call.slot])
    ELSE Val(d.lights[call.slot]).state

\* one step along the cycle of the device a cycle call is made on, from state
StepFrom(d, call, state) ==
    IF call.target = "pump" THEN NextPumpState(state)
    ELSE NextLightState([Val(d.lights[call.slot]) EXCEPT !.state = state])

\* C25: no cycle request is lost: when two cycle requests for the same pump
\* (or for the light) of a spa are suspended at their device calls together
\* and both complete successfully, one right after the other, the second
\* completion leaves the device one step further along the cycle than the
\* first left it, so that the two requests move it two steps.
C25_NoLostCycle ==
    [][\A i \in DOMAIN calls :
        (/\ calls[i].op \in {"cycle_pump", "cycle_light"}
         /\ IsReturn(ev) /\ ev.outcome = "success"
         /\ ev.op = calls[i].op /\ ev.id = calls[i].spa
         /\ TargetState(dev[calls[i].spa], calls[i]) = Val(ev.req)
         /\ calls' = RemoveAt(calls, i)
         /\ IsReturn(ev') /\ ev'.outcome = "success")
        => TargetState(dev'[calls[i].spa], calls[i])
              = StepFrom(dev[calls[i].spa], calls[i], Val(ev.req))]_vars

====
